---- MODULE Spec2Model ----
(***************************************************************************)
(* Model of the pendulum simulation core (src/pendel-web/server):          *)
(* physics.py (derivatives, integrators, step-size heuristic, energy,      *)
(* normalization, positions) and sim_session.py (SimulationSession).       *)
(*                                                                         *)
(* Floats are modelled as fixed-point integers:                            *)
(*   angles, angular velocities, lengths, masses, g, damping, energy and   *)
(*   the relative energy error are in thousandths (Scale);                 *)
(*   times (dt, base_dt, dt_max, sim_time, intervals) are in ticks of      *)
(*   1e-4 s (TimeScale ticks per second).                                  *)
(* A Python exception is modelled as the name of the exception; a call     *)
(* that raises keeps the assignments made before the raising line.         *)
(***************************************************************************)
EXTENDS Integers, Sequences, FiniteSets, TLC

\* sim: the SimulationSession object (a record of its fields)
\* pre: the session as it was when the last call was made
\* op: the last call and its arguments; raised: the exception it raised
\* calls, assigns: number of step() calls and of direct field assignments
\* switched: whether a step() has autoswitched the integrator to rk4
\* ret: the trace of the integration the last step() made
\* stale: whether the energy reference the session holds was captured before
\*        the last change of the integrator or the last onset of damping
\* twin: a second session constructed with the same arguments and driven by
\*       the same calls (absent when only one session is constructed)
VARIABLES sim, pre, op, raised, calls, assigns, switched, ret, stale, twin, cycle, app

vars == <<sim, pre, op, raised, calls, assigns, switched, ret, stale, twin, cycle, app>>

\* ------------------------------------------------------------ bounds
\* largest number of step() calls in one behaviour
MaxSteps == 2
\* largest trail capacity a session is constructed with
MaxTrailCap == 1
\* largest number of direct field assignments in one behaviour
MaxAssign == 1
\* step calls in a run with a constant dt
MaxLiveSteps == 5
\* largest number of loop threads a desktop app starts in one behaviour
MaxThreads == 2
\* largest number of iterations one loop thread begins
MaxIters == 2
\* largest number of button presses on the UI thread in one behaviour
MaxUi == 3

\* ------------------------------------------------------- fixed point
Scale == 1000
TimeScale == 10000
\* math.pi
Pi == 3142
TwoPi == 2 * Pi

\* F(v), with v evaluated once
Bind(v, F(_)) == CHOOSE r \in {F(x) : x \in {v}} : TRUE

Abs(x) == IF x < 0 THEN -x ELSE x
Max(a, b) == IF a >= b THEN a ELSE b
Min(a, b) == IF a <= b THEN a ELSE b

\* a / b for b # 0, truncated toward zero
DivV(a, b) == IF (a < 0) = (b < 0) THEN Abs(a) \div Abs(b) ELSE -(Abs(a) \div Abs(b))
Div(a, b) == Bind(<<a, b>>, LAMBDA p : DivV(p[1], p[2]))

\* float product a * b of two Scale-d numbers (split so that only a result
\* beyond the integer range overflows)
MulV(a, b) ==
  LET qa == DivV(a, Scale)
      qb == DivV(b, Scale)
  IN  qa * qb * Scale + qa * (b - qb * Scale) + (a - qa * Scale) * qb
        + DivV((a - qa * Scale) * (b - qb * Scale), Scale)
Mul(a, b) == Bind(<<a, b>>, LAMBDA p : MulV(p[1], p[2]))

\* a time in seconds as the exact quotient of num ticks by den: float(dt) / steps
Ticks(num, den) == [num |-> num, den |-> den]

\* dt * x for a time dt = dt.num / dt.den ticks
DtMulV(dt, x) ==
  LET d == dt.den * TimeScale
      qx == DivV(x, d)
  IN  qx * dt.num + DivV((x - qx * d) * dt.num, d)
DtMul(dt, x) == Bind(<<dt, x>>, LAMBDA p : DtMulV(p[1], p[2]))

\* one decimal digit of a long division: <<quotient so far, remainder>>
Digit(qr, b) ==
  Bind(DivV(qr[2] * 10, b), LAMBDA d : <<qr[1] * 10 + d, qr[2] * 10 - d * b>>)

\* the largest magnitude a quotient is carried with: 2e6
Huge == 2000000 * Scale

\* float quotient a / b of two Scale-d numbers, b # 0 (long division, three
\* decimal digits of the fraction); a quotient beyond Huge, as a division by
\* the clamp 1e-9 gives, is held at Huge
FDivV(a, b) ==
  Bind(DivV(a, b), LAMBDA q0 :
    IF Abs(q0) >= Huge \div Scale THEN (IF q0 < 0 THEN -Huge ELSE Huge)
    ELSE
  Bind(Digit(<<q0, a - q0 * b>>, b), LAMBDA d1 :
  Bind(Digit(d1, b), LAMBDA d2 :
  Bind(Digit(d2, b), LAMBDA d3 : d3[1]))))
FDiv(a, b) == Bind(<<a, b>>, LAMBDA p : FDivV(p[1], p[2]))

\* math.ceil(a / b) for a >= 0, b > 0
CeilDiv(a, b) == (a + b - 1) \div b

\* the angle wrap of normalize_angles
wrapV(angle) ==
  Bind((angle + Pi) % TwoPi, LAMBDA a : (IF a < 0 THEN a + TwoPi ELSE a) - Pi)
wrap(angle) == Bind(angle, LAMBDA x : wrapV(x))

\* math.sin on [0, Pi] (Bhaskara's rational approximation, in fixed point)
SinHalf(x) == (4 * (x * (Pi - x)) * 100) \div ((5 * Pi * Pi - 4 * (x * (Pi - x))) \div 40)

\* math.sin
Sin(x) == Bind(wrap(x), LAMBDA a : IF a >= 0 THEN SinHalf(a) ELSE -SinHalf(-a))

\* math.cos
Cos(x) == Sin(x + Pi \div 2)

\* --------------------------------------------------- program constants
\* the clamp 1e-9 of physics.py, as the smallest positive fixed-point number
Eps == 1
\* math.radians(45.0), math.radians(-30.0)
Rad45 == 785
RadM30 == -524
\* 0.004 s, 0.015 s: the rk4 defaults of base_dt and dt_max
Rk4BaseDt == 40
Rk4DtMax == 150
\* 0.03 s, 0.001 s: upper bound of dt_max under symplectic, lower bound of dt_max
SympDtMax == 300
MinDtMax == 10
\* 0.008 s: smallest base_dt handed to choose_dt_max by the symplectic branch
SympBaseFloor == 80
\* 1e-4 s: floor of choose_dt_max
DtFloor == 1
\* the clamp 1e-9 s of the sub-step count, as the smallest positive time
EpsTicks == 1
\* 0.1 rad/s: at or below it choose_dt_max returns max_dt
SlowOmega == 100
\* the clamp 1e-6 of Pendel.py, as the smallest positive fixed-point number
ChaosEps == 1

\* ------------------------------------------------------------ results
\* a returned value, or a raised exception
Ok(v) == [ok |-> TRUE, val |-> v, exc |-> "none"]
Raise(e) == [ok |-> FALSE, val |-> <<>>, exc |-> e]

\* whether params[k] succeeds for every k of keys
HasKeys(params, keys) == keys \subseteq DOMAIN params
\* params.get(k, 0.0)
Get(params, k) == IF k \in DOMAIN params THEN params[k] ELSE 0

\* --------------------------------------------------------- physics.py
single_pendulum_derivatives(state, params) ==
  IF ~HasKeys(params, {"g", "l1"}) THEN Raise("KeyError")
  ELSE
    LET theta == state[1]
        omega == state[2]
        g == params["g"]
        l == params["l1"]
        damping == Get(params, "damping")
    IN  Ok(<<omega, -Mul(FDiv(g, Max(Eps, l)), Sin(theta)) - Mul(damping, omega)>>)

double_pendulum_derivatives(state, params) ==
  IF ~HasKeys(params, {"m1", "m2", "l1", "l2", "g"}) THEN Raise("KeyError")
  ELSE
    LET th1 == state[1]
        w1 == state[2]
        th2 == state[3]
        w2 == state[4]
        m1 == params["m1"]
        m2 == params["m2"]
        l1 == params["l1"]
        l2 == params["l2"]
        g == params["g"]
        damping == Get(params, "damping")
        delta == th1 - th2
    IN  Bind([sin_delta |-> Sin(delta), cos_delta |-> Cos(delta)], LAMBDA t :
        Bind(2 * m1 + m2 - Mul(m2, Cos(2 * delta)), LAMBDA denom0 :
        Bind(IF Abs(denom0) < Eps THEN Eps ELSE denom0, LAMBDA denom :
        Bind([l1 |-> Mul(l1, denom), l2 |-> Mul(l2, denom)], LAMBDA ld :
          IF ld.l1 = 0 \/ ld.l2 = 0 THEN Raise("ZeroDivisionError")
          ELSE
            LET num1 == - Mul(Mul(g, 2 * m1 + m2), Sin(th1))
                        - Mul(Mul(m2, g), Sin(th1 - 2 * th2))
                        - Mul(Mul(2 * t.sin_delta, m2),
                              Mul(Mul(w2, w2), l2)
                              + Mul(Mul(Mul(w1, w1), l1), t.cos_delta))
                num2 == Mul(2 * t.sin_delta,
                            Mul(Mul(Mul(w1, w1), l1), m1 + m2)
                            + Mul(Mul(g, m1 + m2), Cos(th1))
                            + Mul(Mul(Mul(Mul(w2, w2), l2), m2), t.cos_delta))
            IN  Ok(<<w1, FDiv(num1, ld.l1) - Mul(damping, w1),
                     w2, FDiv(num2, ld.l2) - Mul(damping, w2)>>)))))

\* ------------------------------- the desktop applications' derivatives
\* the angular accelerations as the three desktop copies compute them, with
\* their delta, their clamp eps of the denominator and their damping terms
Accelerations(state, params, delta, eps) ==
  IF ~HasKeys(params, {"m1", "m2", "l1", "l2", "g"}) THEN Raise("KeyError")
  ELSE
    LET th1 == state[1]
        w1 == state[2]
        th2 == state[3]
        w2 == state[4]
        m1 == params["m1"]
        m2 == params["m2"]
        l1 == params["l1"]
        l2 == params["l2"]
        g == params["g"]
        damping == Get(params, "damping")
    IN  Bind([sin_delta |-> Sin(delta), cos_delta |-> Cos(delta)], LAMBDA t :
        Bind(2 * m1 + m2 - Mul(m2, Cos(2 * th1 - 2 * th2)), LAMBDA denom0 :
        Bind(IF Abs(denom0) < eps THEN eps ELSE denom0, LAMBDA denom :
        Bind([l1 |-> Mul(l1, denom), l2 |-> Mul(l2, denom)], LAMBDA ld :
          IF ld.l1 = 0 \/ ld.l2 = 0 THEN Raise("ZeroDivisionError")
          ELSE
            LET num1 == - Mul(Mul(g, 2 * m1 + m2), Sin(th1))
                        - Mul(Mul(m2, g), Sin(th1 - 2 * th2))
                        - Mul(Mul(2 * t.sin_delta, m2),
                              Mul(Mul(w2, w2), l2)
                              + Mul(Mul(Mul(w1, w1), l1), t.cos_delta))
                num2 == Mul(2 * t.sin_delta,
                            Mul(Mul(Mul(w1, w1), l1), m1 + m2)
                            + Mul(Mul(g, m1 + m2), Cos(th1))
                            + Mul(Mul(Mul(Mul(w2, w2), l2), m2), t.cos_delta))
            IN  Ok(<<w1, FDiv(num1, ld.l1) - Mul(damping, w1),
                     w2, FDiv(num2, ld.l2) - Mul(damping, w2)>>)))))

\* simulator_0.1_backup.py, derivs_double: delta = th2 - th1
derivs_double(state, params) ==
  Accelerations(state, params, state[3] - state[1], Eps)

\* PendelChaosteheory/Pendel.py, derivs: delta = th2 - th1, clamp 1e-6
derivs(state, params) ==
  Accelerations(state, params, state[3] - state[1], ChaosEps)

\* simulator 0.1.py, PendulumPhysics.double_pendulum_derivatives:
\* delta = th2 - th1 (cos(2 * delta) = cos(2 * th1 - 2 * th2))
PendulumPhysics_double_pendulum_derivatives(state, params) ==
  Accelerations(state, params, state[3] - state[1], Eps)

\* the copy named impl
DerivsOf(impl, state, params) ==
  IF impl = "derivs_double" THEN derivs_double(state, params)
  ELSE IF impl = "derivs" THEN derivs(state, params)
  ELSE PendulumPhysics_double_pendulum_derivatives(state, params)

\* deriv_func(state, params) for the derivative function step() picks for mode
deriv(mode, state, params) ==
  Bind(state, LAMBDA s :
    IF mode = "double" THEN double_pendulum_derivatives(s, params)
    ELSE single_pendulum_derivatives(s, params))

\* [s[i] + c * dt * k[i] / d for i in range(len(s))]
Axpy(s, dt, k, c, d) == [i \in DOMAIN s |-> s[i] + Div(c * DtMul(dt, k[i]), d)]

rk4_step(state, dt, params, mode) ==
  Bind(deriv(mode, state, params), LAMBDA k1 :
    IF ~k1.ok THEN k1 ELSE
  Bind(deriv(mode, Axpy(state, dt, k1.val, 1, 2), params), LAMBDA k2 :
    IF ~k2.ok THEN k2 ELSE
  Bind(deriv(mode, Axpy(state, dt, k2.val, 1, 2), params), LAMBDA k3 :
    IF ~k3.ok THEN k3 ELSE
  Bind(deriv(mode, Axpy(state, dt, k3.val, 1, 1), params), LAMBDA k4 :
    IF ~k4.ok THEN k4 ELSE
    Ok([i \in DOMAIN state |->
          state[i] + Div(DtMul(dt, k1.val[i] + 2 * k2.val[i] + 2 * k3.val[i] + k4.val[i]),
                         6)])))))

\* the explicit Euler step: angles advanced with the velocities of the input
symplectic_euler_step_explicit(state, dt, params, mode) ==
  Bind(deriv(mode, state, params), LAMBDA d :
    IF ~d.ok THEN d
    ELSE Ok([i \in DOMAIN state |-> state[i] + DtMul(dt, d.val[i])]))

symplectic_euler_step(state, dt, params, mode) ==
  Bind(deriv(mode, state, params), LAMBDA d :
    IF ~d.ok THEN d
    ELSE IF Len(state) = 4 THEN
      Bind([w1 |-> state[2] + DtMul(dt, d.val[2]),
            w2 |-> state[4] + DtMul(dt, d.val[4])], LAMBDA w :
        Ok(<<state[1] + DtMul(dt, w.w1), w.w1, state[3] + DtMul(dt, w.w2), w.w2>>))
    ELSE IF Len(state) = 2 THEN
      Bind(state[2] + DtMul(dt, d.val[2]), LAMBDA w :
        Ok(<<state[1] + DtMul(dt, w), w>>))
    ELSE Ok([i \in DOMAIN state |-> state[i] + DtMul(dt, d.val[i])]))

\* one integrator call of the sub-step loop
Integrator(integ, s, dt, params, mode) ==
  IF integ = "rk4" THEN rk4_step(s, dt, params, mode)
  ELSE symplectic_euler_step(s, dt, params, mode)

\* rk4_step working on the caller's list (s1 = state) and storing the
\* result into it
rk4_step_inplace(state, dt, params, mode) ==
  Bind(rk4_step(state, dt, params, mode), LAMBDA r : IF r.ok THEN r.val ELSE state)

\* the sequence passed to rk4_step as it is after the call: rk4_step works on
\* the copy s1 = list(state)
rk4_step_arg(state, dt, params, mode) == state

\* the sequence passed to symplectic_euler_step as it is after the call: the
\* components are read into locals
symplectic_euler_step_arg(state, dt, params, mode) == state

\* the argument of one integrator call of the sub-step loop, after the call
IntegratorArg(integ, s, dt, params, mode) ==
  IF integ = "rk4" THEN rk4_step_arg(s, dt, params, mode)
  ELSE symplectic_euler_step_arg(s, dt, params, mode)

\* one iteration "s = integrator(s, dt, params, deriv)" of the sub-step loop;
\* c holds the loop's constants: integ, dt, params, mode; a holds the loop
\* variable s (or the exception raised), the number of integrator calls made
\* so far and whether every call so far left the sequence passed to it as it
\* was. After a raise nothing more is called.
Iteration(c, a) ==
  IF ~a.res.ok THEN a
  ELSE Bind([r |-> Integrator(c.integ, a.res.val, c.dt, c.params, c.mode),
             same |-> IntegratorArg(c.integ, a.res.val, c.dt, c.params, c.mode)
                        = a.res.val],
            LAMBDA f :
         [res |-> f.r, calls |-> a.calls + 1, intact |-> a.intact /\ f.same])

\* the loop "for _ in range(n): s = integrator(s, dt, params, deriv)": n
\* iterations in sequence (evaluated as the first n \div 2, then the rest)
RECURSIVE Substeps(_, _, _)
Substeps(c, a, n) ==
  IF n = 0 THEN a
  ELSE IF n = 1 THEN Iteration(c, a)
  ELSE Bind(n \div 2, LAMBDA h :
       Bind(Substeps(c, a, h), LAMBDA m :
       Bind(n - h, LAMBDA rest : Substeps(c, m, rest))))

\* steps = max(1, int(math.ceil(abs(dt_total) / max(1e-9, dt_max))))
\* the count as floor + 1 instead of ceil
SubstepCount_extra(dt_total, dt_max) ==
  Max(1, Abs(dt_total) \div Max(EpsTicks, dt_max) + 1)

SubstepCount(dt_total, dt_max) == Max(1, CeilDiv(Abs(dt_total), Max(EpsTicks, dt_max)))

\* the sub-stepped integration both branches of step() perform:
\* steps sub-steps of dt_total / steps each
Integrated(integ, state, dt_total, dt_max, params, mode) ==
  Bind(SubstepCount(dt_total, dt_max), LAMBDA steps :
  Bind([integ |-> integ, dt |-> Ticks(dt_total, steps), params |-> params, mode |-> mode],
       LAMBDA c :
  Bind(Substeps(c, [res |-> Ok(state), calls |-> 0, intact |-> TRUE], steps), LAMBDA t :
    [res |-> t.res, calls |-> t.calls, intact |-> t.intact,
     steps |-> steps, small |-> c.dt])))

rk4_integrate_substeps(state, dt_total, dt_max, params, mode) ==
  Integrated("rk4", state, dt_total, dt_max, params, mode)

\* choose_dt_max with the slow test "w_max < 0.1"
choose_dt_max_strict(state, base_dt, max_dt) ==
  Bind(IF Len(state) >= 4 THEN Max(Abs(state[2]), Abs(state[4]))
       ELSE IF Len(state) > 1 THEN Abs(state[2]) ELSE 0, LAMBDA w_max :
    IF w_max < SlowOmega THEN max_dt
    ELSE Bind(DivV(base_dt * Scale, Scale + w_max), LAMBDA dt :
           Max(DtFloor, Min(max_dt, dt))))

choose_dt_max(state, base_dt, max_dt) ==
  Bind(IF Len(state) >= 4 THEN Max(Abs(state[2]), Abs(state[4]))
       ELSE IF Len(state) > 1 THEN Abs(state[2]) ELSE 0, LAMBDA w_max :
    IF w_max <= SlowOmega THEN max_dt
    ELSE Bind(DivV(base_dt * Scale, Scale + w_max), LAMBDA dt :
           Max(DtFloor, Min(max_dt, dt))))

total_energy(state, params, mode) ==
  IF "g" \notin DOMAIN params THEN Raise("KeyError")
  ELSE IF mode = "double" /\ Len(state) >= 4 THEN
    IF ~HasKeys(params, {"m1", "m2", "l1", "l2"}) THEN Raise("KeyError")
    ELSE
      LET g == params["g"]
          th1 == state[1]
          w1 == state[2]
          th2 == state[3]
          w2 == state[4]
          m1 == params["m1"]
          m2 == params["m2"]
          l1 == params["l1"]
          l2 == params["l2"]
      IN  Bind([x1dot |-> Mul(Mul(l1, w1), Cos(th1)),
                y1dot |-> Mul(Mul(-l1, w1), Sin(th1)),
                y1 |-> Mul(-l1, Cos(th1))], LAMBDA b1 :
          Bind([x2dot |-> b1.x1dot + Mul(Mul(l2, w2), Cos(th2)),
                y2dot |-> b1.y1dot - Mul(Mul(l2, w2), Sin(th2)),
                y2 |-> b1.y1 - Mul(l2, Cos(th2))], LAMBDA b2 :
            LET KE == Mul(DivV(m1, 2), Mul(b1.x1dot, b1.x1dot) + Mul(b1.y1dot, b1.y1dot))
                      + Mul(DivV(m2, 2), Mul(b2.x2dot, b2.x2dot) + Mul(b2.y2dot, b2.y2dot))
                PE == Mul(Mul(m1, g), b1.y1) + Mul(Mul(m2, g), b2.y2)
            IN  Ok(KE + PE)))
  ELSE
    IF ~HasKeys(params, {"m1", "l1"}) THEN Raise("KeyError")
    ELSE
      LET g == params["g"]
          th == state[1]
          w == state[2]
          m == params["m1"]
          l == params["l1"]
      IN  Bind([xdot |-> Mul(Mul(l, w), Cos(th)),
                ydot |-> Mul(Mul(-l, w), Sin(th)),
                y |-> Mul(-l, Cos(th))], LAMBDA b :
            LET KE == Mul(DivV(m, 2), Mul(b.xdot, b.xdot) + Mul(b.ydot, b.ydot))
                PE == Mul(Mul(m, g), b.y)
            IN  Ok(KE + PE))

\* normalize_angles wrapping the first angle only
normalize_angles_first(state) ==
  [i \in DOMAIN state |->
     IF i = 1 /\ Len(state) >= 2 THEN wrap(state[i]) ELSE state[i]]

normalize_angles(state) ==
  [i \in DOMAIN state |->
     IF (i = 1 /\ Len(state) >= 2) \/ (i = 3 /\ Len(state) >= 4)
     THEN wrap(state[i]) ELSE state[i]]

\* ((x1, y1), (x2, y2)); raises KeyError without params["l1"]
positions_from_state(state, params) ==
  IF "l1" \notin DOMAIN params THEN Raise("KeyError")
  ELSE
    LET l1 == params["l1"]
        l2 == Get(params, "l2")
    IN  Bind(<<Mul(l1, Sin(state[1])), Mul(l1, Cos(state[1]))>>, LAMBDA p1 :
          IF Len(state) >= 4
          THEN Ok(<<p1, <<p1[1] + Mul(l2, Sin(state[3])), p1[2] + Mul(l2, Cos(state[3]))>>>>)
          ELSE Ok(<<p1, p1>>))

\* ------------------------------------------------------ sim_session.py
\* Optional[float]: None is <<>>, a value v is <<v>>
None == <<>>
Some(v) == <<v>>

\* the canonical initial condition of a mode
InitialState(mode) ==
  IF mode = "double" THEN <<Rad45, 0, RadM30, 0>> ELSE <<Rad45, 0>>

DefaultParams ==
  [m1 |-> 1000, m2 |-> 1000, l1 |-> 1000, l2 |-> 1000, g |-> 9810, damping |-> 0]

\* SimulationSession(...): the dataclass defaults, with the keyword arguments given
SimulationSession(integ, cap, interval, threshold) ==
  [mode |-> "double",
   state |-> InitialState("double"),
   params |-> DefaultParams,
   integrator |-> integ,
   base_dt |-> Rk4BaseDt,
   dt_max |-> Rk4DtMax,
   sim_time |-> 0,
   energy_ref |-> None,
   energy_err |-> 0,
   energy_check_interval |-> interval,
   energy_accum |-> 0,
   autoswitch |-> TRUE,
   energy_threshold |-> threshold,
   normalize_every_n |-> 1,
   norm_counter |-> 0,
   trail_enabled |-> TRUE,
   trail_max_points |-> cap,
   trail_points |-> <<>>]

\* a call's outcome: the session after it and the exception it raised, if any
Done(s) == [sim |-> s, exc |-> "none"]
Raised(s, e) == [sim |-> s, exc |-> e]

\* _append_trail_point without the eviction of the oldest point
append_trail_point_nopop(s, x, y) ==
  [s EXCEPT !.trail_points = Append(s.trail_points, <<x, y>>)]

append_trail_point(s, x, y) ==
  Bind(Append(s.trail_points, <<x, y>>), LAMBDA appended :
    [s EXCEPT !.trail_points =
       IF Len(appended) > s.trail_max_points THEN Tail(appended) ELSE appended])

\* what a step() did in its integration: the base_dt handed to choose_dt_max
\* and the value it returned, dtmx, the number of sub-steps
\* planned and the increment of each, the number of integrator calls made,
\* whether they left their arguments as they were, and the integrator's
\* result before normalization (absent when a call raised)
Traced(t, dtmx, base_dt, chosen) ==
  [kind |-> "step", base_dt |-> base_dt, chosen |-> chosen, dtmx |-> dtmx,
   steps |-> t.steps, small |-> t.small, calls |-> t.calls, intact |-> t.intact,
   raw |-> IF t.res.ok THEN t.res.val ELSE <<>>, res |-> t.res]

\* step(), lines 66-77: the sub-stepped integration
Integrate(s, dt) ==
  IF s.integrator = "rk4" THEN
    Bind(choose_dt_max(s.state, s.base_dt, s.dt_max), LAMBDA chosen :
    Bind(Min(s.dt_max, chosen), LAMBDA dtmx :
      Traced(rk4_integrate_substeps(s.state, dt, dtmx, s.params, s.mode),
             dtmx, s.base_dt, chosen)))
  ELSE
    Bind(Max(SympBaseFloor, 2 * s.base_dt), LAMBDA base :
    Bind(choose_dt_max(s.state, base, s.dt_max), LAMBDA chosen :
    Bind(Min(s.dt_max, chosen), LAMBDA dtmx :
      Traced(Integrated("symplectic", s.state, dt, dtmx, s.params, s.mode),
             dtmx, base, chosen))))

\* step(), lines 79-83: occasional normalization
Normalize(s) ==
  IF s.norm_counter + 1 >= s.normalize_every_n
  THEN [s EXCEPT !.state = normalize_angles(s.state), !.norm_counter = 0]
  ELSE [s EXCEPT !.norm_counter = @ + 1]

\* step(), lines 105-117: the integrator selector after an energy check;
\* e is the local variable e of step(): None when total_energy raised
\* the selector, also returning to symplectic once the drift is low
Select_switchback(s, e) ==
  IF s.autoswitch /\ s.integrator = "symplectic" /\ s.energy_err > s.energy_threshold
  THEN IF e = None
       THEN Raised([s EXCEPT !.integrator = "rk4", !.base_dt = Rk4BaseDt,
                             !.dt_max = Rk4DtMax], "UnboundLocalError")
       ELSE Done([s EXCEPT !.integrator = "rk4", !.base_dt = Rk4BaseDt,
                           !.dt_max = Rk4DtMax, !.energy_ref = e])
  ELSE IF s.energy_err > s.energy_threshold \div 2
       THEN Done([s EXCEPT !.dt_max = Max(MinDtMax, DivV(s.dt_max * 85, 100))])
       ELSE Done([s EXCEPT !.integrator = IF s.autoswitch THEN "symplectic" ELSE @,
                           !.dt_max = Min(SympDtMax, DivV(s.dt_max * 105, 100))])

\* the selector with the symplectic ceiling 0.03 for either integrator
Select_oneupper(s, e) ==
  IF s.autoswitch /\ s.integrator = "symplectic" /\ s.energy_err > s.energy_threshold
  THEN IF e = None
       THEN Raised([s EXCEPT !.integrator = "rk4", !.base_dt = Rk4BaseDt,
                             !.dt_max = Rk4DtMax], "UnboundLocalError")
       ELSE Done([s EXCEPT !.integrator = "rk4", !.base_dt = Rk4BaseDt,
                           !.dt_max = Rk4DtMax, !.energy_ref = e])
  ELSE IF s.energy_err > s.energy_threshold \div 2
       THEN Done([s EXCEPT !.dt_max = Max(MinDtMax, DivV(s.dt_max * 85, 100))])
       ELSE Done([s EXCEPT !.dt_max = Min(SympDtMax, DivV(s.dt_max * 105, 100))])

\* the selector shrinking dt_max without the floor 0.001
Select_nofloor(s, e) ==
  IF s.autoswitch /\ s.integrator = "symplectic" /\ s.energy_err > s.energy_threshold
  THEN IF e = None
       THEN Raised([s EXCEPT !.integrator = "rk4", !.base_dt = Rk4BaseDt,
                             !.dt_max = Rk4DtMax], "UnboundLocalError")
       ELSE Done([s EXCEPT !.integrator = "rk4", !.base_dt = Rk4BaseDt,
                           !.dt_max = Rk4DtMax, !.energy_ref = e])
  ELSE IF s.energy_err > s.energy_threshold \div 2
       THEN Done([s EXCEPT !.dt_max = DivV(s.dt_max * 85, 100)])
       ELSE Done([s EXCEPT !.dt_max =
                    Min(IF s.integrator = "rk4" THEN Rk4DtMax ELSE SympDtMax,
                        DivV(s.dt_max * 105, 100))])

Select(s, e) ==
  IF s.autoswitch /\ s.integrator = "symplectic" /\ s.energy_err > s.energy_threshold
  THEN IF e = None
       THEN Raised([s EXCEPT !.integrator = "rk4", !.base_dt = Rk4BaseDt,
                             !.dt_max = Rk4DtMax], "UnboundLocalError")
       ELSE Done([s EXCEPT !.integrator = "rk4", !.base_dt = Rk4BaseDt,
                           !.dt_max = Rk4DtMax, !.energy_ref = e])
  ELSE IF s.energy_err > s.energy_threshold \div 2
       THEN Done([s EXCEPT !.dt_max = Max(MinDtMax, DivV(s.dt_max * 85, 100))])
       ELSE Done([s EXCEPT !.dt_max =
                    Min(IF s.integrator = "rk4" THEN Rk4DtMax ELSE SympDtMax,
                        DivV(s.dt_max * 105, 100))])

\* abs(e - e0) / max(1e-9, abs(e0))
Drift(e, e0) == FDiv(Abs(e - e0), Max(Eps, Abs(e0)))

\* step(), lines 95-103: the energy check
EnergyCheck(s) ==
  Bind(total_energy(s.state, s.params, s.mode), LAMBDA te :
    IF te.ok
    THEN Bind([s EXCEPT !.energy_accum = 0,
                        !.energy_err = Drift(te.val,
                                             IF s.energy_ref # None THEN s.energy_ref[1]
                                             ELSE te.val)],
              LAMBDA s1 : Select(s1, Some(te.val)))
    ELSE Select([s EXCEPT !.energy_accum = 0, !.energy_err = 0], None))

\* step(), lines 89-93: the energy reference, captured when absent
\* the capture without the test for an existing reference
Capture_always(s) ==
  Bind(total_energy(s.state, s.params, s.mode), LAMBDA te :
    [s EXCEPT !.energy_ref = IF te.ok THEN Some(te.val) ELSE Some(0)])

Capture(s) ==
  IF s.energy_ref # None THEN s
  ELSE Bind(total_energy(s.state, s.params, s.mode), LAMBDA te :
         [s EXCEPT !.energy_ref = IF te.ok THEN Some(te.val) ELSE Some(0)])

\* step(), lines 87-117: energy monitoring when no damping
\* energy monitoring without the damping test
Monitor_always(s, dt) ==
  Bind(Capture(s), LAMBDA s1 :
  Bind([s1 EXCEPT !.energy_accum = @ + dt], LAMBDA s2 :
    IF s2.energy_accum >= s2.energy_check_interval THEN EnergyCheck(s2)
    ELSE Done(s2)))

Monitor(s, dt) ==
  IF Get(s.params, "damping") # 0 THEN Done(s)
  ELSE Bind(Capture(s), LAMBDA s1 :
       Bind([s1 EXCEPT !.energy_accum = @ + dt], LAMBDA s2 :
         IF s2.energy_accum >= s2.energy_check_interval THEN EnergyCheck(s2)
         ELSE Done(s2)))

\* step(), lines 119-125: trail update
TrailUpdate(s) ==
  IF ~s.trail_enabled THEN Done(s)
  ELSE Bind(positions_from_state(s.state, s.params), LAMBDA pos :
         IF ~pos.ok THEN Raised(s, pos.exc)
         ELSE IF s.mode = "double"
              THEN Done(append_trail_point(s, pos.val[2][1], pos.val[2][2]))
              ELSE Done(append_trail_point(s, pos.val[1][1], pos.val[1][2])))

\* step(), lines 56-125; the result carries the session after the call, the
\* exception raised and the trace of the integration
step(s, dt) ==
  Bind(Integrate(s, dt), LAMBDA t :
    IF ~t.res.ok THEN [sim |-> s, exc |-> t.res.exc, trace |-> t]
    ELSE Bind(Normalize([s EXCEPT !.state = t.res.val]), LAMBDA s1 :
         Bind(Monitor([s1 EXCEPT !.sim_time = @ + dt], dt), LAMBDA m :
         Bind(IF m.exc # "none" THEN m ELSE TrailUpdate(m.sim), LAMBDA r :
           [sim |-> r.sim, exc |-> r.exc, trace |-> t]))))

\* reset() without the clearing of the energy accumulator
reset_keep_accum(s) ==
  [s EXCEPT !.state = InitialState(s.mode),
            !.sim_time = 0,
            !.energy_ref = None,
            !.energy_err = 0,
            !.trail_points = <<>>]

\* reset() that also puts the integrator settings back to the dataclass defaults
reset_defaults(s) ==
  [s EXCEPT !.state = InitialState(s.mode),
            !.sim_time = 0,
            !.energy_ref = None,
            !.energy_err = 0,
            !.energy_accum = 0,
            !.trail_points = <<>>,
            !.integrator = "symplectic",
            !.base_dt = Rk4BaseDt,
            !.dt_max = Rk4DtMax,
            !.norm_counter = 0]

reset(s) ==
  [s EXCEPT !.state = InitialState(s.mode),
            !.sim_time = 0,
            !.energy_ref = None,
            !.energy_err = 0,
            !.energy_accum = 0,
            !.trail_points = <<>>]

\* str.lower() on the letters the callers' mode strings use
lower(str) ==
  [i \in DOMAIN str |->
     CASE str[i] = "S" -> "s"
       [] str[i] = "D" -> "d"
       [] str[i] = "E" -> "e"
       [] OTHER -> str[i]]

\* str.startswith
startswith(str, prefix) ==
  Len(str) >= Len(prefix) /\ SubSeq(str, 1, Len(prefix)) = prefix

\* set_mode(), lines 140-141: the mode a mode string selects
new_mode(mode) ==
  Bind(lower(mode), LAMBDA m :
    IF startswith(m, <<"s", "i", "n", "g", "l", "e">>)
       \/ startswith(m, <<"e", "i", "n", "f", "a", "c", "h">>)
    THEN "single" ELSE "double")

\* set_mode(), lines 144-149: the state converted to a mode
Converted(state, mode) ==
  IF mode = "single" THEN <<state[1], state[2]>>
  ELSE <<state[1], state[2], RadM30, 0>>

\* set_mode() that only records the new mode
set_mode_noconvert(s, mode) == [s EXCEPT !.mode = new_mode(mode)]

\* set_mode() without the call of reset()
set_mode_noreset(s, mode) ==
  Bind(new_mode(mode), LAMBDA nm :
    IF nm = s.mode THEN s
    ELSE [s EXCEPT !.state = Converted(s.state, nm), !.mode = nm])

\* set_mode() without the early return on an unchanged mode
set_mode_always(s, mode) ==
  Bind(new_mode(mode), LAMBDA nm :
    reset([s EXCEPT !.state = Converted(s.state, nm), !.mode = nm]))

\* set_mode(), lines 139-151
set_mode(s, mode) ==
  Bind(new_mode(mode), LAMBDA nm :
    IF nm = s.mode THEN s
    ELSE reset([s EXCEPT !.state = Converted(s.state, nm), !.mode = nm]))

\* ------------------------------------------------------------- inputs
\* dt of a step call: 0.003 s, 0.01 s
Dts == {30, 100}
\* energy_check_interval given at construction: 0.006 s
CheckIntervals == {60}
\* energy_threshold given at construction: -0.1, 0.0, 0.1 (the default)
Thresholds == {-100, 0, 100}
\* mode strings handed to set_mode: "double", "Single", "einfach"
ModeInputs ==
  { <<"d", "o", "u", "b", "l", "e">>,
    <<"S", "i", "n", "g", "l", "e">>,
    <<"e", "i", "n", "f", "a", "c", "h">> }
\* values a caller writes into params: a length (0, -1 m), a damping (0.05)
ParamUpdates ==
  ({"l1", "l2"} \X {0, -1000}) \cup ({"damping"} \X {50})
\* keys a caller deletes from params
ParamDeletes == {"m1"}

NoOp == [name |-> "init", dt |-> 0, mode |-> <<>>]

\* ------------------------------------------------------------ actions
\* the history kept of a call that integrates nothing
NoRet == [kind |-> "none"]

\* the history kept of a step(): its trace, and whether the energy reference
\* it found was stale
RetOf(trace, was_stale) ==
  [kind |-> "step", base_dt |-> trace.base_dt, chosen |-> trace.chosen,
   dtmx |-> trace.dtmx, steps |-> trace.steps, small |-> trace.small,
   calls |-> trace.calls, intact |-> trace.intact, raw |-> trace.raw,
   stale |-> was_stale]

\* whether an assignment that turns session a into session b opens a new
\* integration epoch: the integrator changes or damping becomes nonzero
NewEpoch(a, b) ==
  \/ a.integrator # b.integrator
  \/ Get(a.params, "damping") = 0 /\ Get(b.params, "damping") # 0

\* step(), lines 87 and 94-95: whether the step that took session s to
\* session t ran the energy check
Fired(s, t, dt) ==
  /\ t.sim_time # s.sim_time
  /\ Get(s.params, "damping") = 0
  /\ s.energy_accum + dt >= s.energy_check_interval

\* no step yet: the dt of the last step and the number of consecutive steps
\* since the last energy check
NoCycle == [dt |-> 0, since |-> 0]

\* no desktop app is running next to the session
NoApp == [kind |-> "none"]

Init ==
  /\ \E integ \in {"rk4", "symplectic"}, cap \in 0..MaxTrailCap,
        interval \in CheckIntervals, threshold \in Thresholds :
        sim = SimulationSession(integ, cap, interval, threshold)
  /\ pre = sim
  /\ op = NoOp
  /\ raised = "none"
  /\ calls = 0
  /\ assigns = 0
  /\ switched = FALSE
  /\ ret = NoRet
  /\ stale = FALSE
  /\ twin = None
  /\ cycle = NoCycle
  /\ app = NoApp

\* sim.step(dt), and the same call on the twin
StepCall(dt) ==
  /\ \E r \in {step(sim, dt)} :
        /\ sim' = r.sim
        /\ raised' = r.exc
        /\ switched' = (switched \/ (sim.integrator # "rk4" /\ r.sim.integrator = "rk4"))
        /\ ret' = RetOf(r.trace, stale /\ sim.energy_ref # None)
        /\ stale' = IF r.sim.integrator # sim.integrator THEN r.exc # "none"
                    ELSE IF r.sim.energy_ref = None \/ sim.energy_ref = None THEN FALSE
                    ELSE stale
        /\ cycle' = [dt |-> dt,
                     since |-> IF Fired(sim, r.sim, dt) THEN 0 ELSE cycle.since + 1]
        /\ UNCHANGED app
  /\ twin' = IF twin = None THEN None ELSE step(twin, dt).sim
  /\ pre' = sim
  /\ op' = [name |-> "step", dt |-> dt, mode |-> <<>>]
  /\ calls' = calls + 1
  /\ UNCHANGED assigns

\* one of the step calls of a bounded run
Step(dt) == calls < MaxSteps /\ StepCall(dt)

\* sim.reset(), and the same call on the twin
Reset ==
  /\ sim' = reset(sim)
  /\ twin' = IF twin = None THEN None ELSE reset(twin)
  /\ raised' = "none"
  /\ pre' = sim
  /\ op' = [name |-> "reset", dt |-> 0, mode |-> <<>>]
  /\ ret' = NoRet
  /\ stale' = FALSE
  /\ cycle' = [cycle EXCEPT !.since = 0]
  /\ UNCHANGED app
  /\ UNCHANGED <<calls, assigns, switched>>

\* sim.set_mode(mode), and the same call on the twin
SetMode(mode) ==
  /\ \E s \in {set_mode(sim, mode)} :
        /\ sim' = s
        /\ stale' = (stale /\ s.energy_ref # None)
        /\ cycle' = [cycle EXCEPT !.since = IF s.mode # sim.mode THEN 0 ELSE @]
        /\ UNCHANGED app
  /\ twin' = IF twin = None THEN None ELSE set_mode(twin, mode)
  /\ raised' = "none"
  /\ pre' = sim
  /\ op' = [name |-> "set_mode", dt |-> 0, mode |-> mode]
  /\ ret' = NoRet
  /\ UNCHANGED <<calls, assigns, switched>>

\* a caller's direct assignment of a field (app_streamlit.py writes fields this way)
Assigned(s) ==
  /\ assigns < MaxAssign
  /\ assigns' = assigns + 1
  /\ sim' = s
  /\ raised' = "none"
  /\ pre' = sim
  /\ op' = [name |-> "assign", dt |-> 0, mode |-> <<>>]
  /\ ret' = NoRet
  /\ stale' = (stale \/ (sim.energy_ref # None /\ NewEpoch(sim, s)))
  /\ UNCHANGED <<calls, switched, twin, cycle, app>>

\* sim.params.update({k: v})
AssignParam(k, v) ==
  Assigned([sim EXCEPT !.params = [x \in DOMAIN @ \cup {k} |-> IF x = k THEN v ELSE @[x]]])

\* del sim.params[k]
DeleteParam(k) ==
  Assigned([sim EXCEPT !.params = [x \in DOMAIN @ \ {k} |-> @[x]]])

\* sim.integrator = i
AssignIntegrator(i) == Assigned([sim EXCEPT !.integrator = i])

\* sim.autoswitch = b
AssignAutoswitch(b) == Assigned([sim EXCEPT !.autoswitch = b])

\* sim.trail_enabled = b
AssignTrailEnabled(b) == Assigned([sim EXCEPT !.trail_enabled = b])

Next ==
  \/ \E dt \in Dts : Step(dt)
  \/ Reset
  \/ \E mode \in ModeInputs : SetMode(mode)
  \/ \E kv \in ParamUpdates : AssignParam(kv[1], kv[2])
  \/ \E k \in ParamDeletes : DeleteParam(k)
  \/ \E i \in {"rk4", "symplectic"} : AssignIntegrator(i)
  \/ \E b \in {FALSE} : AssignAutoswitch(b)
  \/ \E b \in {FALSE} : AssignTrailEnabled(b)

Spec == Init /\ [][Next]_vars

\* ----------------------------------- sessions constructed with arguments
\* state given at construction, per mode: the slow boundary |omega| = 0.1
\* rad/s, and |omega| = 10 rad/s next to the ends of [-pi, pi]
ArgStates ==
  { <<"single", <<785, 100>>>>,
    <<"single", <<3100, 10000>>>>,
    <<"single", <<-3100, -10000>>>>,
    <<"double", <<785, 0, -524, 100>>>>,
    <<"double", <<3100, 10000, -3100, -10000>>>> }
\* <<base_dt, dt_max>> given at construction: the defaults (0.004, 0.015), the
\* ends of the caller's sliders (0.02, 0.001) and (0.0005, 0.015), and the
\* symplectic ceiling (0.004, 0.03)
ArgDts == { <<40, 150>>, <<200, 10>>, <<5, 150>>, <<40, 300>> }
\* params["l1"] given at construction: 1 m, 0 m
ArgLengths == {1000, 0}
\* energy_threshold given at construction: -0.1, 0.1
ArgThresholds == {-100, 100}

\* SimulationSession(mode=..., state=..., params=..., integrator=...,
\* base_dt=..., dt_max=..., energy_threshold=...), constructed twice
InitArgs ==
  /\ \E integ \in {"rk4", "symplectic"}, ms \in ArgStates, bd \in ArgDts,
        l1 \in ArgLengths, interval \in CheckIntervals, threshold \in ArgThresholds :
        sim = [SimulationSession(integ, MaxTrailCap, interval, threshold) EXCEPT
                 !.mode = ms[1], !.state = ms[2], !.params.l1 = l1,
                 !.base_dt = bd[1], !.dt_max = bd[2]]
  /\ twin = sim
  /\ pre = sim
  /\ op = NoOp
  /\ raised = "none"
  /\ calls = 0
  /\ assigns = 0
  /\ switched = FALSE
  /\ ret = NoRet
  /\ stale = FALSE
  /\ cycle = NoCycle
  /\ app = NoApp

NextArgs ==
  \/ \E dt \in Dts : Step(dt)
  \/ Reset
  \/ \E mode \in ModeInputs : SetMode(mode)

SpecArgs == InitArgs /\ [][NextArgs]_vars

\* ------------------------------------------ the functions on their own
\* single and double states handed to the integrator
PureStates ==
  { <<"single", <<785, 1000>>>>,
    <<"single", <<-524, -2000>>>>,
    <<"single", <<3100, 10000>>>>,
    <<"single", <<0, 0>>>>,
    <<"double", <<785, 0, -524, 0>>>>,
    <<"double", <<785, 1000, -524, -2000>>>>,
    <<"double", <<3100, 10000, -3100, -10000>>>>,
    <<"double", <<1571, 500, 785, 300>>>>,
    <<"double", <<0, 0, 0, 0>>>> }
\* params: the defaults, with damping 0 or 0.05 and l1 1 m or 0.5 m
PureParams ==
  { [DefaultParams EXCEPT !.damping = d, !.l1 = l] : d \in {0, 50}, l \in {1000, 500} }
\* the desktop applications' derivative functions
Copies == {"derivs_double", "derivs", "PendulumPhysics.double_pendulum_derivatives"}

InitPure ==
  /\ sim = SimulationSession("rk4", MaxTrailCap, 60, 100)
  /\ twin = None
  /\ pre = sim
  /\ op = NoOp
  /\ raised = "none"
  /\ calls = 0
  /\ assigns = 0
  /\ switched = FALSE
  /\ ret = NoRet
  /\ stale = FALSE
  /\ cycle = NoCycle
  /\ app = NoApp

\* symplectic_euler_step(state, dt, params, deriv)
CallSymplectic(mode, state, dt, params) ==
  /\ op' = [name |-> "symplectic_euler_step", dt |-> dt, mode |-> mode,
            state |-> state, params |-> params]
  /\ ret' = [kind |-> "symplectic_euler_step",
             out |-> symplectic_euler_step(state, Ticks(dt, 1), params, mode)]
  /\ UNCHANGED <<sim, pre, raised, calls, assigns, switched, stale, twin, cycle, app>>

\* one of the desktop copies and physics.double_pendulum_derivatives, called
\* with the same state and params
CallDerivs(impl, state, params) ==
  /\ op' = [name |-> impl, dt |-> 0, mode |-> "double",
            state |-> state, params |-> params]
  /\ ret' = [kind |-> "derivs",
             out |-> DerivsOf(impl, state, params),
             ref |-> double_pendulum_derivatives(state, params)]
  /\ UNCHANGED <<sim, pre, raised, calls, assigns, switched, stale, twin, cycle, app>>

NextPure ==
  \/ \E ms \in PureStates, dt \in Dts, params \in PureParams :
        CallSymplectic(ms[1], ms[2], dt, params)
  \/ \E impl \in Copies, ms \in PureStates, params \in PureParams :
        ms[1] = "double" /\ CallDerivs(impl, ms[2], params)

SpecPure == InitPure /\ [][NextPure]_vars

\* --------------------------------- a caller stepping with a constant dt
\* SimulationSession(integrator=..., energy_threshold=...) with
\* params["l1"] given
InitLive ==
  /\ \E integ \in {"rk4", "symplectic"}, l1 \in ArgLengths,
        interval \in CheckIntervals, threshold \in Thresholds :
        sim = [SimulationSession(integ, MaxTrailCap, interval, threshold) EXCEPT
                 !.params.l1 = l1]
  /\ twin = None
  /\ pre = sim
  /\ op = NoOp
  /\ raised = "none"
  /\ calls = 0
  /\ assigns = 0
  /\ switched = FALSE
  /\ ret = NoRet
  /\ stale = FALSE
  /\ cycle = NoCycle
  /\ app = NoApp

\* sim.step(dt) with the dt of the caller's earlier steps
StepLive(dt) ==
  /\ calls < MaxLiveSteps
  /\ cycle.dt \in {0, dt}
  /\ StepCall(dt)

NextLive ==
  \/ \E dt \in Dts : StepLive(dt)
  \/ Reset

\* the caller goes on calling step (app_streamlit.py steps on every rerun)
SpecLive == InitLive /\ [][NextLive]_vars /\ WF_vars(\E dt \in Dts : StepLive(dt))

\* the length of the state vector of a mode
LenOf(mode) == IF mode = "double" THEN 4 ELSE 2

\* ------------------------------------------- the threaded desktop apps
\* PendulumApp (simulator_0.1_backup.py, "backup") and PendulumSimulator
\* (simulator 0.1.py, "simple") run the integration in a background thread
\* while the buttons act on the UI thread.  Every read and every write of a
\* shared attribute is a step of its own.  The angles play no part in the
\* interleavings: the state vector is kept as its length, the number of the
\* reset its values descend from, and the integrations applied since.

\* capacity of the trail: trail_max (backup), max_trail_points (simple)
trail_max == 300
max_trail_points == 200

\* the variables of the web session, which the desktop apps do not touch
session == <<sim, pre, op, raised, calls, assigns, switched, ret, stale, twin, cycle>>

\* PendulumModel.reset / reset_simulation: the canonical initial state of a mode
AppInitialState(mode, epoch) == [len |-> LenOf(mode), epoch |-> epoch, steps |-> 0]

\* a state vector no thread has read yet
NoState == [len |-> 0, epoch |-> 0, steps |-> 0]

\* threading.Thread(target=loop): a loop thread before its first loop test
NewThread ==
  [pc |-> "test", f |-> "none", s |-> NoState, sample |-> 0, copy |-> <<>>,
   iters |-> 0, told |-> FALSE, resumed |-> FALSE]

\* PendulumApp() / PendulumSimulator(): not running, double pendulum, no loop thread
NewApp(kind) ==
  [kind |-> kind, running |-> FALSE, timer_stop |-> FALSE, timer_thread |-> 0,
   mode |-> "double", state |-> AppInitialState("double", 0), trail |-> <<>>,
   resets |-> 0, ui |-> "idle", target |-> "none", presses |-> 0,
   threads |-> <<>>]

InitApp ==
  /\ sim = SimulationSession("rk4", MaxTrailCap, 60, 100)
  /\ twin = None
  /\ pre = sim
  /\ op = NoOp
  /\ raised = "none"
  /\ calls = 0
  /\ assigns = 0
  /\ switched = FALSE
  /\ ret = NoRet
  /\ stale = FALSE
  /\ cycle = NoCycle
  /\ \E kind \in {"backup", "simple"} : app = NewApp(kind)

\* the UI thread is between two button presses and may take another one
UiIdle == app.kind # "none" /\ app.ui = "idle" /\ app.presses < MaxUi

\* the loop threads that have not ended
Alive == {t \in DOMAIN app.threads : app.threads[t].pc \notin {"done", "dead"}}

\* PendulumApp.start with _start_timer, and start_simulation
App_start ==
  /\ UiIdle
  /\ Len(app.threads) < MaxThreads
  /\ app' =
       IF app.running THEN [app EXCEPT !.presses = @ + 1]
       ELSE IF app.kind = "backup" /\ app.timer_thread # 0
       THEN [app EXCEPT !.presses = @ + 1, !.running = TRUE]
       ELSE [app EXCEPT !.presses = @ + 1,
                        !.running = TRUE,
                        !.timer_stop = FALSE,
                        !.threads = Append(@, NewThread),
                        !.timer_thread = IF app.kind = "backup"
                                         THEN Len(app.threads) + 1 ELSE @]
  /\ UNCHANGED session

\* PendulumApp.pause with _stop_timer, and stop_simulation; the loop threads
\* alive at this moment have been told to stop
App_pause ==
  /\ UiIdle
  /\ app' = [app EXCEPT !.presses = @ + 1,
                        !.running = FALSE,
                        !.timer_stop = TRUE,
                        !.timer_thread = 0,
                        !.threads = [t \in DOMAIN @ |->
                                       IF t \in Alive THEN [@[t] EXCEPT !.told = TRUE]
                                       ELSE @[t]]]
  /\ UNCHANGED session

\* PendulumApp.reset with PendulumModel.reset (the loop goes on), and
\* reset_simulation (which stops the loop first)
App_reset ==
  /\ UiIdle
  /\ app' =
       IF app.kind = "backup"
       THEN [app EXCEPT !.presses = @ + 1,
                        !.state = AppInitialState(app.mode, app.resets + 1),
                        !.trail = <<>>,
                        !.resets = @ + 1]
       ELSE [app EXCEPT !.presses = @ + 1,
                        !.running = FALSE,
                        !.timer_stop = TRUE,
                        !.threads = [t \in DOMAIN @ |->
                                       IF t \in Alive THEN [@[t] EXCEPT !.told = TRUE]
                                       ELSE @[t]],
                        !.state = AppInitialState(app.mode, app.resets + 1),
                        !.trail = <<>>,
                        !.resets = @ + 1]
  /\ UNCHANGED session

\* the first assignment of a mode change: set_mode assigns self.state (the
\* mode is still the old one), change_mode assigns self.canvas.mode (the
\* state is still the old one); set_mode returns at once for the same mode
App_change_mode(mode) ==
  /\ UiIdle
  /\ app' =
       IF app.kind = "backup"
       THEN IF mode = app.mode THEN [app EXCEPT !.presses = @ + 1]
            ELSE [app EXCEPT !.presses = @ + 1,
                             !.state.len = LenOf(mode),
                             !.ui = "set_mode", !.target = mode]
       ELSE [app EXCEPT !.presses = @ + 1,
                        !.mode = mode,
                        !.ui = "change_mode", !.target = mode]
  /\ UNCHANGED session

\* the second assignment of a mode change: set_mode assigns self.mode,
\* change_mode assigns self.canvas.state and clears the trail
App_change_mode_end ==
  /\ app.kind # "none"
  /\ app.ui # "idle"
  /\ app' =
       IF app.ui = "set_mode"
       THEN [app EXCEPT !.mode = app.target, !.ui = "idle", !.target = "none"]
       ELSE [app EXCEPT !.state.len = LenOf(app.target), !.trail = <<>>,
                        !.ui = "idle", !.target = "none"]
  /\ UNCHANGED session

\* thread t is at the program point pc
At(t, pc) == app.kind # "none" /\ t \in DOMAIN app.threads /\ app.threads[t].pc = pc

\* while self.model.running and not self._timer_stop (while self.running and
\* not self.stop_flag): the thread begins another iteration or ends
Loop_test(t) ==
  /\ At(t, "test")
  /\ app.threads[t].iters < MaxIters
  /\ app' =
       IF app.running /\ ~app.timer_stop
       THEN [app EXCEPT !.threads[t].pc = "mode",
                        !.threads[t].iters = @ + 1,
                        !.threads[t].resumed = @ \/ app.threads[t].told]
       ELSE [app EXCEPT !.threads[t].pc = "done"]
  /\ UNCHANGED session

\* integrate / simulation_loop: the derivative function is chosen from the mode
Loop_mode(t) ==
  /\ At(t, "mode")
  /\ app' = [app EXCEPT !.threads[t].f = app.mode, !.threads[t].pc = "read"]
  /\ UNCHANGED session

\* the state vector is read and integrated with the chosen function; the
\* function unpacks 2 or 4 values and raises ValueError on another length,
\* which the backup loop catches and which ends the simple loop
Loop_read(t) ==
  /\ At(t, "read")
  /\ app' =
       IF app.state.len = LenOf(app.threads[t].f)
       THEN [app EXCEPT !.threads[t].s = app.state, !.threads[t].pc = "write"]
       ELSE [app EXCEPT !.threads[t].s = app.state,
                        !.threads[t].pc = IF app.kind = "backup" THEN "fb_mode" ELSE "dead"]
  /\ UNCHANGED session

\* the integrated state is written back
Loop_write(t) ==
  /\ At(t, "write")
  /\ app' = [app EXCEPT !.state = [app.threads[t].s EXCEPT !.steps = @ + 1],
                        !.threads[t].pc = "tr_mode"]
  /\ UNCHANGED session

\* the fallback of the backup loop, PendulumModel.step: the mode is read again
Fallback_mode(t) ==
  /\ At(t, "fb_mode")
  /\ app' = [app EXCEPT !.threads[t].f = app.mode, !.threads[t].pc = "fb_read"]
  /\ UNCHANGED session

\* PendulumModel.step reads the state; a ValueError here is caught nowhere
Fallback_read(t) ==
  /\ At(t, "fb_read")
  /\ app' = [app EXCEPT !.threads[t].s = app.state,
                        !.threads[t].pc = IF app.state.len = LenOf(app.threads[t].f)
                                          THEN "fb_write" ELSE "dead"]
  /\ UNCHANGED session

\* PendulumModel.step writes the state back
Fallback_write(t) ==
  /\ At(t, "fb_write")
  /\ app' = [app EXCEPT !.state = [app.threads[t].s EXCEPT !.steps = @ + 1],
                        !.threads[t].pc = "tr_mode"]
  /\ UNCHANGED session

\* the trail update reads the mode to pick the bob
Trail_mode(t) ==
  /\ At(t, "tr_mode")
  /\ app' = [app EXCEPT !.threads[t].f = app.mode, !.threads[t].pc = "tr_state"]
  /\ UNCHANGED session

\* the bob position is taken from the state: the backup loop indexes state[2]
\* in double mode (IndexError on a vector of 2), the simple loop unpacks 4 or
\* 2 values (ValueError on another length); neither is caught
Trail_state(t) ==
  /\ At(t, "tr_state")
  /\ app' =
       IF \/ app.state.len = LenOf(app.threads[t].f)
          \/ app.kind = "backup" /\ app.threads[t].f = "single"
       THEN [app EXCEPT !.threads[t].sample = app.resets, !.threads[t].pc = "tr_append"]
       ELSE [app EXCEPT !.threads[t].pc = "dead"]
  /\ UNCHANGED session

\* the sample is appended and the oldest one dropped over capacity
Trail_append(t) ==
  /\ At(t, "tr_append")
  /\ \E cap \in {IF app.kind = "backup" THEN trail_max ELSE max_trail_points} :
     \E tr \in {Append(app.trail, app.threads[t].sample)} :
        app' = [app EXCEPT !.trail = IF Len(tr) > cap THEN Tail(tr) ELSE tr,
                           !.threads[t].pc = IF app.kind = "backup" THEN "tr_copy" ELSE "test"]
  /\ UNCHANGED session

\* list(self.draw_view.trail_points): the backup loop copies the trail
Trail_copy(t) ==
  /\ At(t, "tr_copy")
  /\ app' = [app EXCEPT !.threads[t].copy = app.trail, !.threads[t].pc = "tr_store"]
  /\ UNCHANGED session

\* self.draw_view.trail_points = <the copy>; the iteration ends with the sleep
Trail_store(t) ==
  /\ At(t, "tr_store")
  /\ app' = [app EXCEPT !.trail = app.threads[t].copy, !.threads[t].pc = "test"]
  /\ UNCHANGED session

NextApp ==
  \/ App_start
  \/ App_pause
  \/ App_reset
  \/ \E mode \in {"single", "double"} : App_change_mode(mode)
  \/ App_change_mode_end
  \/ \E t \in 1..MaxThreads : Loop_test(t)
  \/ \E t \in 1..MaxThreads : Loop_mode(t)
  \/ \E t \in 1..MaxThreads : Loop_read(t)
  \/ \E t \in 1..MaxThreads : Loop_write(t)
  \/ \E t \in 1..MaxThreads : Fallback_mode(t)
  \/ \E t \in 1..MaxThreads : Fallback_read(t)
  \/ \E t \in 1..MaxThreads : Fallback_write(t)
  \/ \E t \in 1..MaxThreads : Trail_mode(t)
  \/ \E t \in 1..MaxThreads : Trail_state(t)
  \/ \E t \in 1..MaxThreads : Trail_append(t)
  \/ \E t \in 1..MaxThreads : Trail_copy(t)
  \/ \E t \in 1..MaxThreads : Trail_store(t)

SpecApp == InitApp /\ [][NextApp]_vars

\* ------------------------------------------------------------- claims
\* the mode a mode string of ModeInputs asks for
Requested(mode) == IF mode = <<"d", "o", "u", "b", "l", "e">> THEN "double" ELSE "single"

\* C1: in every reachable session the mode is "double" or "single" and the
\* state vector has length 4 in double mode and length 2 in single mode.
C1_LengthMatchesMode ==
  /\ sim.mode \in {"double", "single"}
  /\ Len(sim.state) = LenOf(sim.mode)

\* a step completed in single mode, after a mode change
C1_Witness ==
  /\ op.name = "step"
  /\ raised = "none"
  /\ sim.mode = "single"
  /\ Len(sim.state) = 2
  /\ sim.state # pre.state

\* C2: the trail never holds more than trail_max_points points.
C2_TrailBounded == Len(sim.trail_points) <= sim.trail_max_points

\* a step on a full trail of capacity >= 1: a point was appended and one evicted
C2_Witness ==
  /\ op.name = "step"
  /\ raised = "none"
  /\ pre.trail_max_points >= 1
  /\ Len(pre.trail_points) = pre.trail_max_points
  /\ Len(sim.trail_points) = sim.trail_max_points

\* C3: reset() leaves the canonical initial condition of the current mode,
\* an empty trail, sim_time 0, no energy reference, energy_err 0 and
\* accumulator 0.
C3_ResetCanonical ==
  op.name = "reset" =>
    /\ sim.mode = pre.mode
    /\ sim.state = IF sim.mode = "double" THEN <<Rad45, 0, RadM30, 0>> ELSE <<Rad45, 0>>
    /\ Len(sim.state) = LenOf(sim.mode)
    /\ sim.trail_points = <<>>
    /\ sim.sim_time = 0
    /\ sim.energy_ref = None
    /\ sim.energy_err = 0
    /\ sim.energy_accum = 0

\* reset() of a session that has moved, has a trail, a reference and an accumulator
C3_Witness ==
  /\ op.name = "reset"
  /\ pre.state # sim.state
  /\ pre.trail_points # <<>>
  /\ pre.sim_time > 0
  /\ pre.energy_ref # None
  /\ pre.energy_accum > 0

\* C4: a set_mode call leaves the first pendulum's angle state[0] as it was.
C4_FirstAnglePreserved ==
  op.name = "set_mode" => sim.state[1] = pre.state[1]

\* C5: set_mode to a different mode leaves the new mode, an empty trail,
\* sim_time 0, no energy reference and energy_err 0; in double mode the second
\* pendulum's angle is nonzero and its angular velocity 0.
C5_ModeChangeResets ==
  (op.name = "set_mode" /\ Requested(op.mode) # pre.mode) =>
    /\ sim.mode = Requested(op.mode)
    /\ Len(sim.state) = LenOf(sim.mode)
    /\ sim.trail_points = <<>>
    /\ sim.sim_time = 0
    /\ sim.energy_ref = None
    /\ sim.energy_err = 0
    /\ sim.mode = "double" => (sim.state[3] # 0 /\ sim.state[4] = 0)

\* set_mode("double") of a single-mode session that has stepped
C5_Witness ==
  /\ op.name = "set_mode"
  /\ pre.mode = "single"
  /\ sim.mode = "double"
  /\ pre.trail_points # <<>>
  /\ pre.sim_time > 0
  /\ pre.energy_ref # None

\* C6: set_mode with the current mode changes no field of the session, and a
\* second set_mode with the same argument changes nothing more.
C6_SameModeNoChange ==
  /\ (op.name = "set_mode" /\ Requested(op.mode) = pre.mode) => sim = pre
  /\ \A m \in ModeInputs : set_mode(set_mode(sim, m), m) = set_mode(sim, m)

\* set_mode with the current mode on a session that has stepped
C6_Witness ==
  /\ op.name = "set_mode"
  /\ Requested(op.mode) = pre.mode
  /\ pre.trail_points # <<>>
  /\ pre.sim_time > 0
  /\ pre.energy_ref # None

\* C7: no step, reset or set_mode call changes the integrator from "rk4" to
\* anything else.
C7_NoSwitchBack ==
  (op.name \in {"step", "reset", "set_mode"} /\ pre.integrator = "rk4") =>
    sim.integrator = "rk4"

\* a later step with an energy check, on a session the autoswitch moved to rk4
C7_Witness ==
  /\ switched
  /\ assigns = 0
  /\ op.name = "step"
  /\ raised = "none"
  /\ pre.integrator = "rk4"
  /\ sim.integrator = "rk4"
  /\ pre.energy_accum + op.dt >= pre.energy_check_interval

\* whether this step() made an energy check
Checked == op.name = "step" /\ Get(pre.params, "damping") = 0
           /\ sim.sim_time # pre.sim_time
           /\ pre.energy_accum + op.dt >= pre.energy_check_interval

\* C8: with autoswitch true, integrator "symplectic" and damping 0, an energy
\* check whose drift exceeds energy_threshold sets the integrator to "rk4", the
\* energy reference to the energy just measured, base_dt to 0.004 and dt_max to
\* 0.015 in that step; a drift <= energy_threshold does not switch.
C8_SwitchOnDrift ==
  (Checked /\ pre.autoswitch /\ pre.integrator = "symplectic") =>
    IF sim.energy_err > sim.energy_threshold
    THEN /\ raised = "none"
         /\ sim.integrator = "rk4"
         /\ sim.base_dt = Rk4BaseDt
         /\ sim.dt_max = Rk4DtMax
         /\ total_energy(sim.state, sim.params, sim.mode).ok
         /\ sim.energy_ref = Some(total_energy(sim.state, sim.params, sim.mode).val)
    ELSE sim.integrator = "symplectic"

\* C9: step(dt) with a zero or negative length in params does not raise and
\* leaves a state of the length of the mode.
C9_NoRaiseOnBadLength ==
  (op.name = "step" /\ HasKeys(pre.params, {"m1", "m2", "l1", "l2", "g"})
     /\ (pre.params["l1"] <= 0 \/ pre.params["l2"] <= 0)) =>
    /\ raised = "none"
    /\ Len(sim.state) = LenOf(sim.mode)

\* whether total_energy fails in this step(): single mode reads params["m1"]
\* only there
EnergyFails == op.name = "step" /\ pre.mode = "single"
               /\ "m1" \notin DOMAIN pre.params
               /\ Get(pre.params, "damping") = 0

\* C10: a failing energy computation never propagates out of step(): the
\* drift of that cycle is 0, an absent reference becomes 0.0, and the trail
\* update still executes.
C10_EnergyFailureContained ==
  EnergyFails =>
    /\ raised = "none"
    /\ sim.energy_err = IF Checked THEN 0 ELSE pre.energy_err
    /\ pre.energy_ref = None => sim.energy_ref = Some(0)
    /\ pre.trail_max_points > Len(pre.trail_points) =>
         Len(sim.trail_points) = Len(pre.trail_points) + 1

\* the largest |angular velocity| of a state
WMax(state) ==
  IF Len(state) >= 4 THEN Max(Abs(state[2]), Abs(state[4])) ELSE Abs(state[2])

\* the value choose_dt_max is to return for a largest angular velocity w
Expected(w, base_dt, max_dt) ==
  IF w <= 100 THEN max_dt ELSE Max(1, Min(max_dt, (base_dt * 1000) \div (1000 + w)))

Integrated_ok == op.name = "step" /\ ret.kind = "step" /\ ret.raw # <<>>

\* C12: with normalize_every_n = 1, after every step each angle of the state
\* lies in [-pi, pi] and differs from the integrator's unnormalized result by
\* an integer multiple of 2 pi, and the angular velocities are exactly the
\* integrator's.
C12_AnglesNormalized ==
  (op.name = "step" /\ pre.normalize_every_n = 1) =>
    /\ \A i \in DOMAIN sim.state \cap {1, 3} :
         /\ sim.state[i] >= -Pi
         /\ sim.state[i] <= Pi
         /\ Integrated_ok =>
              \E k \in -2 .. 2 : ret.raw[i] - sim.state[i] = k * TwoPi
    /\ Integrated_ok =>
         /\ Len(ret.raw) = Len(sim.state)
         /\ \A i \in DOMAIN sim.state \cap {2, 4} : sim.state[i] = ret.raw[i]

\* a step of the double pendulum whose integrator carried both angles out
\* of [-pi, pi], one on each side
C12_Witness ==
  /\ Integrated_ok
  /\ pre.normalize_every_n = 1
  /\ Len(ret.raw) = 4
  /\ ret.raw[1] > Pi
  /\ ret.raw[3] < -Pi
  /\ sim.state[1] = ret.raw[1] - TwoPi
  /\ sim.state[3] = ret.raw[3] + TwoPi

C14_StepCompletes ==
  (op.name = "step" /\ ret.kind = "step") =>
    /\ ret.steps >= 1
    /\ ret.calls = ret.steps
    /\ raised = "none"

\* C15 as stated: the number of integrator invocations of one step never
\* exceeds max(1, ceil(|dt| / dt_max)) for the session's dt_max at entry,
\* whatever the angular velocities.
C15_BoundedByDtMax ==
  (op.name = "step" /\ ret.kind = "step") =>
    ret.calls <= Max(1, CeilDiv(Abs(op.dt), pre.dt_max))

\* C15, amended: the number of integrator invocations of one step never
\* exceeds max(1, ceil(|dt| / dtmx)) for dtmx = min(dt_max,
\* choose_dt_max(state at entry)); that is the dt_max bound when the largest
\* |angular velocity| is <= 0.1, and at most
\* max(1, ceil(|dt| / min(dt_max, 1e-4))) whatever the velocities.
C15_BoundedByChosen ==
  (op.name = "step" /\ ret.kind = "step") =>
    /\ ret.dtmx = Min(pre.dt_max, Expected(WMax(pre.state), ret.base_dt, pre.dt_max))
    /\ ret.calls <= Max(1, CeilDiv(Abs(op.dt), Max(EpsTicks, ret.dtmx)))
    /\ ret.calls <= Max(1, CeilDiv(Abs(op.dt), Min(pre.dt_max, DtFloor)))
    /\ WMax(pre.state) <= SlowOmega =>
         ret.calls <= Max(1, CeilDiv(Abs(op.dt), pre.dt_max))

\* a completed step from a fast state with more integrator invocations
\* than ceil(|dt| / dt_max)
C15_Witness ==
  /\ op.name = "step"
  /\ ret.kind = "step"
  /\ raised = "none"
  /\ WMax(pre.state) > SlowOmega
  /\ ret.calls = ret.steps
  /\ ret.calls > Max(1, CeilDiv(Abs(op.dt), pre.dt_max))

\* C16: in one step(dt) the active integrator is invoked exactly
\* max(1, ceil(|dt| / dtmx)) times, dtmx = min(dt_max, choose_dt_max(state at
\* entry)) computed once; every invocation uses the increment dt / steps,
\* the increments sum to dt, and each has magnitude <= dt_max; for the rk4
\* and the symplectic branch alike.
C16_ExactSubsteps ==
  (op.name = "step" /\ ret.kind = "step") =>
    /\ ret.dtmx = Min(pre.dt_max, Expected(WMax(pre.state), ret.base_dt, pre.dt_max))
    /\ ret.steps = Max(1, CeilDiv(Abs(op.dt), Max(EpsTicks, ret.dtmx)))
    /\ ret.calls = ret.steps
    /\ ret.small = Ticks(op.dt, ret.steps)
    /\ ret.calls * ret.small.num = op.dt * ret.small.den
    /\ Abs(ret.small.num) <= pre.dt_max * ret.small.den

\* the energy check of this step takes the switch branch
Switches == /\ pre.autoswitch
            /\ pre.integrator = "symplectic"
            /\ sim.energy_err > sim.energy_threshold

\* the ceiling of dt_max for an integrator
Upper(integrator) == IF integrator = "rk4" THEN Rk4DtMax ELSE SympDtMax

\* C17: at every energy check that does not switch the integrator exactly
\* one dt_max adaptation is applied: drift > threshold / 2 gives
\* max(0.001, 0.85 dt_max), otherwise min(upper, 1.05 dt_max) with upper
\* 0.015 for rk4 and 0.03 for symplectic; integrator, base_dt and the energy
\* reference are not changed by the adaptation.
C17_OneAdaptation ==
  (Checked /\ ~Switches) =>
    /\ sim.dt_max = IF sim.energy_err > sim.energy_threshold \div 2
                    THEN Max(MinDtMax, (pre.dt_max * 85) \div 100)
                    ELSE Min(Upper(pre.integrator), (pre.dt_max * 105) \div 100)
    /\ sim.integrator = pre.integrator
    /\ sim.base_dt = pre.base_dt
    /\ sim.energy_ref # None
    /\ pre.energy_ref # None => sim.energy_ref = pre.energy_ref

\* an energy check of a symplectic session with a reference from an earlier
\* step, drift above half the threshold and no switch: dt_max shrinks
C17_Witness ==
  /\ Checked
  /\ ~Switches
  /\ raised = "none"
  /\ pre.integrator = "symplectic"
  /\ pre.energy_ref # None
  /\ sim.energy_err > sim.energy_threshold \div 2
  /\ sim.dt_max = (pre.dt_max * 85) \div 100
  /\ sim.dt_max < pre.dt_max

\* dt_max lies between the floor 0.001 and the ceiling of the integrator
InRange(s) == s.dt_max >= MinDtMax /\ s.dt_max <= Upper(s.integrator)

\* C18: when dt_max is in [0.001, upper(integrator)] and the caller assigns
\* neither dt_max nor integrator, every step, reset and set_mode leaves
\* dt_max in [0.001, upper(current integrator)], also right after an
\* autoswitch; so it stays there after any sequence of such calls.
C18_DtMaxInRange ==
  (op.name \in {"step", "reset", "set_mode"} /\ InRange(pre)) => InRange(sim)

\* a step whose energy check switched a symplectic session with dt_max 0.03
\* to rk4: dt_max is 0.015 right after the switch
C18_Witness ==
  /\ Checked
  /\ Switches
  /\ InRange(pre)
  /\ pre.dt_max > Rk4DtMax
  /\ sim.integrator = "rk4"
  /\ sim.dt_max = Rk4DtMax

\* C19: a step with nonzero damping leaves the energy reference, the energy
\* drift, the check accumulator, the integrator, base_dt and dt_max
\* unchanged.
C19_DampedStepNoMonitoring ==
  (op.name = "step" /\ Get(pre.params, "damping") # 0) =>
    /\ sim.energy_ref = pre.energy_ref
    /\ sim.energy_err = pre.energy_err
    /\ sim.energy_accum = pre.energy_accum
    /\ sim.integrator = pre.integrator
    /\ sim.base_dt = pre.base_dt
    /\ sim.dt_max = pre.dt_max

\* a damped step that moved the state of a session holding a reference and
\* a partly filled accumulator, long enough for a check to be due
C19_Witness ==
  /\ op.name = "step"
  /\ Get(pre.params, "damping") # 0
  /\ raised = "none"
  /\ sim.state # pre.state
  /\ pre.energy_ref # None
  /\ pre.energy_accum > 0
  /\ pre.energy_accum + op.dt >= pre.energy_check_interval

\* C20: the energy reference is reset whenever damping becomes nonzero and
\* whenever the integrator changes (by autoswitch or by the caller's
\* assignment): the reference an energy check compares with was captured
\* after the most recent such change.
C20_ReferenceFresh ==
  (Checked /\ ret.kind = "step") => ~ret.stale

\* an undamped step whose integration succeeded, so that monitoring ran
Monitored == /\ op.name = "step"
             /\ Get(pre.params, "damping") = 0
             /\ sim.sim_time # pre.sim_time

\* the energy of the session's state
EnergyNow == total_energy(sim.state, sim.params, sim.mode)

\* C21: the energy reference is captured once per epoch: the first undamped
\* step after construction, reset or a mode change sets energy_ref to the
\* energy of the state that step produced (after integration and
\* normalization); every later step leaves it unchanged, except the step in
\* which the autoswitch fires; changing params between steps does not alter
\* it.
C21_ReferenceOncePerEpoch ==
  /\ (Monitored /\ pre.energy_ref = None /\ EnergyNow.ok) =>
        sim.energy_ref = Some(EnergyNow.val)
  /\ (op.name = "step" /\ pre.energy_ref # None /\ ~(Checked /\ Switches)) =>
        sim.energy_ref = pre.energy_ref
  /\ (op.name = "step" /\ ~Monitored) => sim.energy_ref = pre.energy_ref
  /\ (op.name = "assign" /\ sim.params # pre.params) =>
        sim.energy_ref = pre.energy_ref
  /\ (op.name = "reset" \/ (op.name = "set_mode" /\ sim.mode # pre.mode)) =>
        sim.energy_ref = None

\* a second undamped step that moved the state to another energy and kept
\* the reference of the first
C21_Witness ==
  /\ Monitored
  /\ calls = 2
  /\ pre.energy_ref # None
  /\ EnergyNow.ok
  /\ Some(EnergyNow.val) # pre.energy_ref
  /\ sim.state # pre.state
  /\ sim.energy_ref = pre.energy_ref

\* C22: with energy_check_interval > 0, damping 0 and dt >= 0 a step fires
\* the energy check exactly when accumulator + dt >= energy_check_interval
\* and then sets the accumulator to 0 (the overshoot is discarded);
\* otherwise the accumulator grows by dt; hence after every step
\* 0 <= accumulator < energy_check_interval.
C22_AccumulatorCycle ==
  (/\ op.name = "step"
   /\ Get(pre.params, "damping") = 0
   /\ pre.energy_check_interval > 0
   /\ op.dt >= 0) =>
    /\ sim.energy_accum = IF pre.energy_accum + op.dt >= pre.energy_check_interval
                          THEN 0 ELSE pre.energy_accum + op.dt
    /\ sim.energy_accum >= 0
    /\ sim.energy_accum < sim.energy_check_interval

\* C23: under repeated step(dt) calls with a constant dt > 0 and damping 0
\* the energy check, together with exactly one selector decision (switch,
\* shrink or grow), fires at least once in every
\* ceil(energy_check_interval / dt) consecutive steps, for the life of the
\* session, also after an autoswitch and after a reset.
C23_ChecksRecur ==
  (op.name = "step" /\ op.dt > 0 /\ Get(pre.params, "damping") = 0) =>
    /\ cycle.since < CeilDiv(pre.energy_check_interval, op.dt)
    /\ Checked =>
         IF Switches THEN sim.integrator = "rk4"
         ELSE sim.dt_max = IF sim.energy_err > sim.energy_threshold \div 2
                           THEN Max(MinDtMax, (pre.dt_max * 85) \div 100)
                           ELSE Min(Upper(pre.integrator), (pre.dt_max * 105) \div 100)

\* the sample of the tracked bob for the session's state: bob 2 in double
\* mode, bob 1 in single mode
Tracked ==
  Bind(positions_from_state(sim.state, sim.params), LAMBDA pos :
    IF ~pos.ok THEN <<>>
    ELSE IF sim.mode = "double" THEN <<pos.val[2][1], pos.val[2][2]>>
    ELSE <<pos.val[1][1], pos.val[1][2]>>)

\* C24: each step with trail_enabled true appends exactly one sample at the
\* end of the trail (the tracked bob's position for the state after
\* integration and normalization) and, if the length then exceeds
\* trail_max_points, removes only the oldest sample, keeping the order of
\* the rest; a step with trail_enabled false leaves the trail unchanged.
C24_TrailAppend ==
  op.name = "step" =>
    IF pre.trail_enabled
    THEN /\ Tracked # <<>>
         /\ sim.trail_points =
              IF Len(pre.trail_points) + 1 > pre.trail_max_points
              THEN Tail(Append(pre.trail_points, Tracked))
              ELSE Append(pre.trail_points, Tracked)
    ELSE sim.trail_points = pre.trail_points

\* the derivative of the state handed to the integrator
InputDeriv == deriv(op.mode, op.state, op.params)

\* C25: symplectic_euler_step evaluates the derivative on the input state,
\* first computes each new angular velocity w' = w + dt * a and then each new
\* angle from the already-updated velocity, theta' = theta + dt * w', for
\* the length-2 and the length-4 state alike.
C25_VelocityThenAngle ==
  op.name = "symplectic_euler_step" =>
    /\ ret.out.ok = InputDeriv.ok
    /\ ret.out.ok =>
         /\ Len(ret.out.val) = Len(op.state)
         /\ \A i \in DOMAIN op.state \cap {2, 4} :
              /\ ret.out.val[i] = op.state[i] + DtMul(Ticks(op.dt, 1), InputDeriv.val[i])
              /\ ret.out.val[i - 1] = op.state[i - 1] + DtMul(Ticks(op.dt, 1), ret.out.val[i])

\* a step of the double pendulum in which both new angles differ from
\* theta + dt * w taken with the old velocities
C25_Witness ==
  /\ op.name = "symplectic_euler_step"
  /\ ret.out.ok
  /\ Len(op.state) = 4
  /\ ret.out.val[1] # op.state[1] + DtMul(Ticks(op.dt, 1), op.state[2])
  /\ ret.out.val[3] # op.state[3] + DtMul(Ticks(op.dt, 1), op.state[4])
  /\ ret.out.val[2] # op.state[2]

\* C26: every double-pendulum derivative implementation of the repository
\* evaluates the accelerations with delta = theta1 - theta2, so for the same
\* state and parameters each of the three desktop copies returns the same
\* [w1, a1, w2, a2] as physics.double_pendulum_derivatives.
C26_CopiesAgree ==
  op.name \in Copies => ret.out = ret.ref

\* the settings reset() is not concerned with
Settings(s) ==
  <<s.mode, s.params, s.integrator, s.base_dt, s.dt_max, s.autoswitch,
    s.energy_threshold, s.trail_enabled, s.trail_max_points, s.norm_counter>>

\* C27: reset() leaves mode, params, integrator, base_dt, dt_max, autoswitch,
\* energy_threshold, trail_enabled, trail_max_points and the normalization
\* counter as they were; a session that was autoswitched to rk4 is still on
\* rk4, with the dt_max the checks adapted, after the reset.
C27_ResetKeepsSettings ==
  op.name = "reset" =>
    /\ raised = "none"
    /\ Settings(sim) = Settings(pre)
    /\ (twin # None => twin.integrator = sim.integrator /\ twin.dt_max = sim.dt_max)

\* a reset of a session that was autoswitched to rk4 and whose dt_max a later
\* check has lowered
C27_Witness ==
  /\ op.name = "reset"
  /\ switched
  /\ sim.integrator = "rk4"
  /\ sim.dt_max < Rk4DtMax
  /\ pre.sim_time > 0
  /\ Get(sim.params, "l1") > 0

\* a loop thread that began an iteration after it was told to stop has
\* just written an integrated state
StaleStep(t) == app.threads[t].resumed /\ app.threads[t].pc = "tr_mode"

\* C28: in the threaded apps at most one background loop is iterating after
\* any sequence of start and pause/stop: of the loop threads alive at most
\* one has not been told to stop, and a thread that was told to stop never
\* performs another integration step once a later start has launched a new
\* loop thread.
C28_OneLoop ==
  app.kind # "none" =>
    /\ Cardinality({t \in Alive : ~app.threads[t].told}) <= 1
    /\ \A t \in DOMAIN app.threads : ~StaleStep(t)

\* C29: a reset from the UI thread while the loop runs is never lost: the
\* state of the backup app descends from the canonical initial state of the
\* latest reset, and its trail holds only samples taken after that reset.
C29_ResetNotLost ==
  app.kind = "backup" =>
    /\ app.state.epoch = app.resets
    /\ \A i \in DOMAIN app.trail : app.trail[i] = app.resets

\* C30: while the UI thread changes the mode, no loop thread reads a state
\* vector whose length disagrees with the mode it read (which sends the
\* backup loop into its fallback and ends a loop thread otherwise), so no
\* loop thread is dead while the app is marked running.
C30_ModeMatchesState ==
  app.kind # "none" =>
    \A t \in DOMAIN app.threads :
      /\ app.threads[t].pc \notin {"fb_mode", "dead"}
      /\ ~(app.running /\ app.threads[t].pc = "dead")

====
